---- MODULE Spec2Model ----
(***************************************************************************)
(* The Jira reconciliation (sync) engine of scripts/logbook-local.py:      *)
(* key extraction, local parsing, gap detection, the persisted pending     *)
(* batch, the interactive review loop, the executor with its clipboard     *)
(* fallback, and the audit logger.                                         *)
(*                                                                         *)
(* Texts are sequences of tokens.  A token is a tuple whose first element  *)
(* is its kind:                                                            *)
(*   <<"nl">>              a newline                                       *)
(*   <<"c">>               one other (non-blank) character                 *)
(*   <<"fm">>              the text '---'                                  *)
(*   <<"field", n, v>>     the text 'n: v' (a frontmatter line)            *)
(*   <<"hdr">>             the text '## Progress Log'                      *)
(*   <<"sec">>             the text '## Notes' (another section header)    *)
(*   <<"ent", d, c>>       the text '- <date d>: <content c>'              *)
(*   <<"key", k>>          an occurrence of the tracker key k              *)
(*   <<"head", t>>, <<"tail", t>>  the first character of token t and the  *)
(*                         rest of it, when a slice cuts t in two          *)
(* Calendar dates are integers (days), compared as the code compares the   *)
(* fixed-width YYYY-MM-DD strings; the clock counts hours.                 *)
(***************************************************************************)
EXTENDS Integers, Sequences, FiniteSets, TLC

VARIABLES
    tasks,      \* Tasks/*.md: the text of every task record
    remote,     \* the tracker: the state of every issue
    clock,      \* datetime.now(), in hours
    used,       \* how much of each bound of the model the behaviour has used
    pending,    \* scripts/.jira-sync-pending.json
    sess,       \* the locals of a running jira_sync_review
    calls,      \* the primitives called since a scan last wrote the pending file
    ev,         \* the step just taken
    pure        \* argument and result of a function applied on its own

vars == <<tasks, remote, clock, used, pending, sess, calls, ev, pure>>

(***************************************************************************)
(* Bounds of the model.                                                    *)
(***************************************************************************)
MaxScans == 2        \* scans (jira-detect runs) in one behaviour
MaxTicks == 1        \* clock steps (of one or two days) in one behaviour
MaxCrashes == 1      \* review commands that end by an uncaught exception
MaxDecisions == 2    \* approve, edit and skip decisions in one behaviour
MaxTextLen == 4      \* length of the texts given to the audit-log patch alone
MaxEntries == 4      \* progress entries given to the detector alone

(***************************************************************************)
(* Program constants.                                                      *)
(***************************************************************************)
StaleHours == 24     \* age above which the pending file is stale
MaxPoints == 3       \* entries quoted in one comment body
CutLen == 150        \* characters kept of one entry's content
EpochDate == 1       \* the date '1970-01-01', used when Jira has no comment

DayHours == StaleHours
StartHour == 4 * DayHours        \* the clock at the start: day 4, 00:00
NoDate == 0 - 1                  \* an unset (empty or None) date
NotSet == 0 - 2                  \* the text 'Not set'

NL == <<"nl">>
CH == <<"c">>
FM == <<"fm">>
HDR == <<"hdr">>
SEC == <<"sec">>
Field(n, v) == <<"field", n, v>>
Ent(d, c) == <<"ent", d, c>>
KeyTok(k) == <<"key", k>>
\* The content of a hand-written entry: a text and its length in characters.
Txt(id, len) == <<"txt", id, len>>

Kind(tok) == tok[1]

Take(s, n) == SubSeq(s, 1, IF n < Len(s) THEN n ELSE Len(s))
Drop(s, n) == SubSeq(s, n + 1, Len(s))

Today(now) == now \div DayHours

\* The indices of text holding a token of the given kind, in a set.
Where(text, kind) == {p \in 1..Len(text) : Kind(text[p]) = kind}

Least(S) == CHOOSE x \in S : \A y \in S : x <= y

(***************************************************************************)
(* extract_jira_keys: the set of keys a text holds.  Both patterns are     *)
(* searched in the whole text, so the key an audit line names counts too.  *)
(***************************************************************************)
\* extract_jira_keys, were a key found in every text.
ExtractAlways(text) == {"MRC-1"}

extract_jira_keys(text) ==
    {text[p][2] : p \in Where(text, "key")}
        \cup {text[p][3][3] : p \in {q \in Where(text, "ent") : text[q][3][1] = "sync"}}

\* list(set): the keys in an order the set's hashing decides.
KeyOrders(keys) ==
    {s \in [1..Cardinality(keys) -> keys] : \A k \in keys : \E p \in DOMAIN s : s[p] = k}

(***************************************************************************)
(* parse_task_frontmatter: ^---\s*\n(.*?)\n--- and then one 'key: value'   *)
(* per line; a field that is absent reads as empty.                        *)
(***************************************************************************)
FrontEnd(text) ==
    {m \in 4..Len(text) : text[m] = FM /\ text[m - 1] = NL}

HasFront(text) ==
    /\ Len(text) >= 2
    /\ text[1] = FM
    /\ text[2] = NL
    /\ FrontEnd(text) # {}

FrontValue(text, name, default) ==
    IF ~HasFront(text) THEN default
    ELSE LET last == Least(FrontEnd(text)) - 2
             at == {p \in 3..last : Kind(text[p]) = "field" /\ text[p][2] = name}
         IN  IF at = {} THEN default
             ELSE text[CHOOSE p \in at : \A q \in at : q <= p][3]

parse_task_frontmatter(text) ==
    [status |-> FrontValue(text, "status", ""),
     due_date |-> FrontValue(text, "due_date", NoDate),
     next_action |-> FrontValue(text, "next_action", ""),
     next_action_due |-> FrontValue(text, "next_action_due", NoDate)]

(***************************************************************************)
(* parse_progress_log: the section ## Progress Log\s*\n(.*?)(?=\n## |\Z)   *)
(* and in it the entries '- date: content', in the order of the text.      *)
(***************************************************************************)
\* The headers the search can match at: '## Progress Log' and a newline.
LogHeaders(text) ==
    {h \in Where(text, "hdr") : h < Len(text) /\ text[h + 1] = NL}

\* \s*\n takes every newline that follows the header.
RECURSIVE SkipNewlines(_, _)
SkipNewlines(text, p) ==
    IF p <= Len(text) /\ text[p] = NL THEN SkipNewlines(text, p + 1) ELSE p

\* (?=\n## |\Z): the section stops before a newline that a header follows.
SectionStops(text, from) ==
    {q \in from..(Len(text) - 1) :
        text[q] = NL /\ Kind(text[q + 1]) \in {"hdr", "sec"}}

LogSection(text) ==
    IF LogHeaders(text) = {} THEN <<>>
    ELSE LET from == SkipNewlines(text, Least(LogHeaders(text)) + 1)
             stop == IF SectionStops(text, from) = {} THEN Len(text) + 1
                     ELSE Least(SectionStops(text, from))
         IN  SubSeq(text, from, stop - 1)

RECURSIVE EntriesOf(_)
EntriesOf(section) ==
    IF section = <<>> THEN <<>>
    ELSE IF Kind(Head(section)) = "ent"
         THEN <<[date |-> Head(section)[2], content |-> Head(section)[3]]>>
                  \o EntriesOf(Tail(section))
         ELSE EntriesOf(Tail(section))

parse_progress_log(text) == EntriesOf(LogSection(text))

(***************************************************************************)
(* detect_jira_gaps: the three checks, in their fixed order.               *)
(***************************************************************************)
\* content[:150]
Cut(content) ==
    IF content[1] = "txt" /\ content[3] > CutLen
    THEN <<"txt", content[2], CutLen>>
    ELSE content

\* jira_last_comment[:10] of a timestamp <<date, hour>>; '1970-01-01' for none.
CommentDate(jira_state) ==
    IF jira_state.last_comment_date = <<>>
    THEN EpochDate
    ELSE jira_state.last_comment_date[1]

\* EntriesAfter, were an entry of the cutoff date itself kept.
RECURSIVE EntriesFrom(_, _)
EntriesFrom(entries, cutoff) ==
    IF entries = <<>> THEN <<>>
    ELSE IF Head(entries).date >= cutoff
         THEN <<Head(entries)>> \o EntriesFrom(Tail(entries), cutoff)
         ELSE EntriesFrom(Tail(entries), cutoff)

\* [e for e in progress_entries if e['date'] > jira_comment_date]
RECURSIVE EntriesAfter(_, _)
EntriesAfter(entries, cutoff) ==
    IF entries = <<>> THEN <<>>
    ELSE IF Head(entries).date > cutoff
         THEN <<Head(entries)>> \o EntriesAfter(Tail(entries), cutoff)
         ELSE EntriesAfter(Tail(entries), cutoff)

\* The entry the progress check reads as the most recent one.
LatestEntry(progress_entries) == progress_entries[1]

CommentBody(new_entries, task_data, today) ==
    [today |-> today,
     points |-> [p \in 1..Len(Take(new_entries, MaxPoints)) |-> Cut(new_entries[p].content)],
     next |-> task_data.next_action,
     next_due |-> IF task_data.next_action # "" THEN task_data.next_action_due ELSE NoDate]

ProgressCheck(progress_entries, task_data, jira_state, today) ==
    IF progress_entries = <<>> THEN <<>>
    ELSE IF LatestEntry(progress_entries).date > CommentDate(jira_state)
         THEN LET new_entries == EntriesAfter(progress_entries, CommentDate(jira_state))
              IN  IF new_entries = <<>> THEN <<>>
                  ELSE <<[type |-> "comment",
                          content |-> CommentBody(new_entries, task_data, today),
                          reason |-> <<"Local progress since", CommentDate(jira_state)>>,
                          confidence |-> "high"]>>
         ELSE <<>>

\* DueDateCheck, were a remote issue without due date left alone.
DueDateCheckBothSet(task_data, jira_state) ==
    IF task_data.due_date # NoDate /\ jira_state.due_date # NoDate
           /\ task_data.due_date # jira_state.due_date
    THEN <<[type |-> "due_date",
            current |-> jira_state.due_date,
            suggested |-> task_data.due_date,
            reason |-> <<"Local task due_date differs from Jira">>,
            confidence |-> "medium"]>>
    ELSE <<>>

DueDateCheck(task_data, jira_state) ==
    IF task_data.due_date # NoDate /\ jira_state.due_date # NoDate
           /\ task_data.due_date # jira_state.due_date
    THEN <<[type |-> "due_date",
            current |-> jira_state.due_date,
            suggested |-> task_data.due_date,
            reason |-> <<"Local task due_date differs from Jira">>,
            confidence |-> "medium"]>>
    ELSE IF task_data.due_date # NoDate /\ jira_state.due_date = NoDate
         THEN <<[type |-> "due_date",
                 current |-> NotSet,
                 suggested |-> task_data.due_date,
                 reason |-> <<"Jira has no due date but task has one">>,
                 confidence |-> "medium"]>>
         ELSE <<>>

\* Lower, were the case of a name left as it is.
LowerKeeps(name) == name

\* str.lower() on the names of the model.
Lower(name) ==
    CASE name = "In Progress" -> "in progress"
      [] name = "Done" -> "done"
      [] name = "CLOSED" -> "closed"
      [] name = "Resolved" -> "resolved"
      [] name = "Start" -> "start"
      [] name = "Finish" -> "finish"
      [] OTHER -> name

StatusCheck(task_data, jira_state) ==
    IF task_data.status = "d"
           /\ Lower(jira_state.status) \notin {"done", "closed", "resolved"}
    THEN <<[type |-> "transition",
            current |-> jira_state.status,
            suggested |-> "Done",
            reason |-> <<"Local task is marked done but Jira is not">>,
            confidence |-> "high"]>>
    ELSE <<>>

\* detect_jira_gaps, were it to return at the first check that fires.
DetectEarlyExit(text, task_data, jira_state, today) ==
    LET progress == ProgressCheck(parse_progress_log(text), task_data, jira_state, today)
        due == DueDateCheck(task_data, jira_state)
    IN  IF progress # <<>> THEN progress
        ELSE IF due # <<>> THEN due
        ELSE StatusCheck(task_data, jira_state)

detect_jira_gaps(text, task_data, jira_state, today) ==
    ProgressCheck(parse_progress_log(text), task_data, jira_state, today)
        \o DueDateCheck(task_data, jira_state)
        \o StatusCheck(task_data, jira_state)

(***************************************************************************)
(* log_to_task_progress: the audit line and the patch of the record text.  *)
(***************************************************************************)
LogEntry(jira_key, update, today) ==
    IF update.type = "comment" THEN Ent(today, <<"sync", "comment", jira_key>>)
    ELSE Ent(today, <<"sync", update.type, jira_key, update.suggested>>)

\* s[:1] and s[1:] of a text without newline: a slice cuts a token in two
\* unless the token is one character.
OneChar(tok) == Kind(tok) \in {"c", "head"}

FirstChar(s) ==
    IF s = <<>> THEN <<>>
    ELSE IF OneChar(Head(s)) THEN <<Head(s)>> ELSE <<<<"head", Head(s)>>>>

AfterFirstChar(s) ==
    IF s = <<>> THEN <<>>
    ELSE IF OneChar(Head(s)) THEN Tail(s) ELSE <<<<"tail", Head(s)>>>> \o Tail(s)

\* parts[1][:header_end+1] and parts[1][header_end+1:], header_end being
\* parts[1].find('\n'), or 0 when there is no newline.
HeaderLineRest(after) ==
    IF Where(after, "nl") = {} THEN FirstChar(after)
    ELSE Take(after, Least(Where(after, "nl")))

BelowHeaderLine(after) ==
    IF Where(after, "nl") = {} THEN AfterFirstChar(after)
    ELSE Drop(after, Least(Where(after, "nl")))

\* log_to_task_progress, were the audit line added at the end of the record.
LogAtEnd(content, log_entry) ==
    IF Cardinality(Where(content, "hdr")) = 1 THEN content \o <<log_entry, NL>>
    ELSE content

log_to_task_progress(content, log_entry) ==
    IF Cardinality(Where(content, "hdr")) = 1
    THEN LET h == Least(Where(content, "hdr"))
             before == Take(content, h - 1)
             after == Drop(content, h)
         IN  before \o <<HDR>> \o HeaderLineRest(after) \o <<log_entry, NL>>
                 \o BelowHeaderLine(after)
    ELSE content

(***************************************************************************)
(* The task store and the tracker of the model.                            *)
(***************************************************************************)
TaskFiles == <<"T1", "T2">>          \* tasks_dir.glob("*.md"), in its order
FileSet == {TaskFiles[n] : n \in DOMAIN TaskFiles}
Keys == {"MRC-1", "MRC-2"}

Front(status, due) ==
    <<FM, NL, Field("status", status), NL>>
        \o (IF due = NoDate THEN <<>> ELSE <<Field("due_date", due), NL>>)
        \o <<Field("next_action", "Ship"), NL, FM, NL>>

\* Records as they are written by hand: newest entry first, oldest first,
\* no note log, a note log that is the last line without a newline.
TextNewestFirst ==
    Front("s", 6) \o <<KeyTok("MRC-1"), NL, HDR, NL,
                       Ent(3, Txt("b", 200)), NL, Ent(2, Txt("a", 20)), NL>>
TextOldestFirst ==
    Front("s", NoDate) \o <<KeyTok("MRC-1"), NL, HDR, NL,
                            Ent(2, Txt("a", 20)), NL, Ent(3, Txt("b", 200)), NL,
                            SEC, NL, CH, NL>>
TextNoLog == Front("s", 6) \o <<KeyTok("MRC-2"), CH, KeyTok("MRC-1"), NL>>
TextBareHeader == Front("s", 5) \o <<KeyTok("MRC-2"), NL, HDR>>
TextDone ==
    Front("d", 6) \o <<KeyTok("MRC-2"), NL, HDR, NL, Ent(3, Txt("b", 200)), NL>>
\* A record marked done whose issue is still open in the tracker.
TextDoneOpen ==
    Front("d", 6) \o <<KeyTok("MRC-1"), NL, HDR, NL, Ent(3, Txt("b", 200)), NL>>
TextNoKey == Front("s", 6) \o <<CH, NL, HDR, NL, Ent(3, Txt("b", 200)), NL>>

Issue(status, due, last) ==
    [status |-> status, due_date |-> due, last_comment_date |-> last]

Store(a, b) == [f \in FileSet |-> IF f = "T1" THEN a ELSE b]
Tracker(a, b) == [k \in Keys |-> IF k = "MRC-1" THEN a ELSE b]

IssueBehind == Issue("In Progress", 5, <<2, 9>>)
IssueFresh == Issue("In Progress", 6, <<>>)
IssueClosed == Issue("Done", NoDate, <<3, 9>>)

\* The stores and trackers a behaviour starts from.
InitialWorlds ==
    {[tasks |-> Store(TextNewestFirst, TextBareHeader),
      remote |-> Tracker(IssueBehind, IssueClosed)],
     [tasks |-> Store(TextNewestFirst, TextDone),
      remote |-> Tracker(IssueFresh, IssueClosed)],
     [tasks |-> Store(TextOldestFirst, TextNoKey),
      remote |-> Tracker(IssueBehind, IssueClosed)],
     [tasks |-> Store(TextOldestFirst, TextBareHeader),
      remote |-> Tracker(IssueFresh, IssueClosed)],
     [tasks |-> Store(TextNoLog, TextDone),
      remote |-> Tracker(IssueBehind, IssueClosed)],
     [tasks |-> Store(TextNoLog, TextNoKey),
      remote |-> Tracker(IssueFresh, IssueClosed)]}

(***************************************************************************)
(* fetch_jira_issue_state: the snapshot of one issue, or nothing when the  *)
(* credentials are missing or the request fails.                           *)
(***************************************************************************)
NoIssue == [found |-> FALSE]

fetch_jira_issue_state(config, answered, issues, jira_key) ==
    IF ~config THEN NoIssue
    ELSE IF ~answered THEN NoIssue
    ELSE [found |-> TRUE,
          key |-> jira_key,
          status |-> issues[jira_key].status,
          due_date |-> issues[jira_key].due_date,
          last_comment_date |-> issues[jira_key].last_comment_date]

(***************************************************************************)
(* scan_tasks_for_jira_updates.  The environment of one scan: whether the  *)
(* credentials are configured, the order list(set) gives the keys of each  *)
(* file, and whether each fetch is answered.                               *)
(***************************************************************************)
KeysOf(files) == [f \in FileSet |-> extract_jira_keys(files[f])]

ScanEnvs(files) ==
    LET keys == KeysOf(files)
        orders == {o \in [FileSet -> UNION {KeyOrders(keys[f]) : f \in FileSet}] :
                      \A f \in FileSet : o[f] \in KeyOrders(keys[f])}
        fetches == {<<f, k>> : f \in FileSet, k \in Keys} \cap
                       UNION {{<<f, k>> : k \in keys[f]} : f \in FileSet}
    IN  [config : {TRUE}, order : orders, answered : [fetches -> BOOLEAN]]
            \cup [config : {FALSE}, order : orders, answered : {[p \in fetches |-> TRUE]}]

\* CardsOfKeys, were a failed fetch to end the keys of the file.
RECURSIVE CardsUntilFailure(_, _, _, _, _, _)
CardsUntilFailure(task_file, files, jira_keys, issues, env, today) ==
    IF jira_keys = <<>> THEN <<>>
    ELSE LET jira_key == Head(jira_keys)
             jira_state == fetch_jira_issue_state(env.config,
                               env.answered[<<task_file, jira_key>>], issues, jira_key)
             rest == CardsUntilFailure(task_file, files, Tail(jira_keys), issues, env, today)
         IN  IF ~jira_state.found THEN <<>>
             ELSE LET updates == detect_jira_gaps(files[task_file],
                                     parse_task_frontmatter(files[task_file]),
                                     jira_state, today)
                  IN  IF updates = <<>> THEN rest
                      ELSE <<[jira_key |-> jira_key,
                              jira_status |-> jira_state.status,
                              task_file |-> task_file,
                              updates |-> updates]>> \o rest

\* for jira_key in jira_keys: fetch, detect, append a card when updates result
RECURSIVE CardsOfKeys(_, _, _, _, _, _)
CardsOfKeys(task_file, files, jira_keys, issues, env, today) ==
    IF jira_keys = <<>> THEN <<>>
    ELSE LET jira_key == Head(jira_keys)
             jira_state == fetch_jira_issue_state(env.config,
                               env.answered[<<task_file, jira_key>>], issues, jira_key)
             rest == CardsOfKeys(task_file, files, Tail(jira_keys), issues, env, today)
         IN  IF ~jira_state.found THEN rest
             ELSE LET updates == detect_jira_gaps(files[task_file],
                                     parse_task_frontmatter(files[task_file]),
                                     jira_state, today)
                  IN  IF updates = <<>> THEN rest
                      ELSE <<[jira_key |-> jira_key,
                              jira_status |-> jira_state.status,
                              task_file |-> task_file,
                              updates |-> updates]>> \o rest

\* SkipsTask, were no task file passed over.
SkipsNone(task_data) == FALSE

\* Whether the scan goes past a task file without looking at its keys.
SkipsTask(task_data) == task_data.status = "d"

RECURSIVE ScanFrom(_, _, _, _, _)
ScanFrom(task_files, files, issues, env, today) ==
    IF task_files = <<>> THEN <<>>
    ELSE LET task_file == Head(task_files)
             rest == ScanFrom(Tail(task_files), files, issues, env, today)
         IN  IF SkipsTask(parse_task_frontmatter(files[task_file])) THEN rest
             ELSE CardsOfKeys(task_file, files, env.order[task_file], issues, env, today)
                      \o rest

scan_tasks_for_jira_updates(files, issues, env, today) ==
    ScanFrom(TaskFiles, files, issues, env, today)

\* The keys the scan fetches, in the order it fetches them.
RECURSIVE FetchesFrom(_, _, _)
FetchesFrom(task_files, files, env) ==
    IF task_files = <<>> THEN <<>>
    ELSE IF SkipsTask(parse_task_frontmatter(files[Head(task_files)]))
         THEN FetchesFrom(Tail(task_files), files, env)
         ELSE env.order[Head(task_files)] \o FetchesFrom(Tail(task_files), files, env)

(***************************************************************************)
(* save_pending_jira_updates and jira_sync_detect.                         *)
(***************************************************************************)
NoFile == [exists |-> FALSE]

save_pending_jira_updates(suggestions, now) ==
    [exists |-> TRUE, generated |-> now, suggestions |-> suggestions]

\* The pending file after a scan that found the given suggestions.
jira_sync_detect(suggestions, now, file) ==
    IF suggestions = <<>> THEN file
    ELSE save_pending_jira_updates(suggestions, now)

(***************************************************************************)
(* The executor.  A primitive answers "true", "false" or "raise"; the      *)
(* tracker's answer to its request is "accept" (2xx, the JSON it sends on  *)
(* success), "reject" (an HTTP or network error) or "odd" (JSON that is    *)
(* not an object).                                                         *)
(***************************************************************************)
Responses == {"accept", "reject", "odd"}

\* response and response.get("id")
execute_jira_comment(config, response) ==
    IF ~config THEN "false"
    ELSE CASE response = "accept" -> "true"
           [] response = "reject" -> "false"
           [] OTHER -> "raise"

\* return response is not None or True
execute_jira_due_date(config, response) ==
    IF ~config THEN "false"
    ELSE IF response # "reject" \/ TRUE THEN "true" ELSE "false"

\* The transitions an issue offers: nothing (the request failed), or a list.
\* id: whether the entry holds the key "id".
Offer(name, to, id) == [name |-> name, to |-> to, id |-> id]

TransitionLists ==
    {<<>>,
     <<Offer("Start", "In Progress", TRUE)>>,
     <<Offer("Start", "In Progress", TRUE), Offer("Finish", "Done", TRUE)>>,
     <<Offer("done", "CLOSED", TRUE)>>,
     <<Offer("Finish", "Done", FALSE)>>}

NoTransitions == <<Offer("", "", FALSE)>>      \* api_request returned None

Matching(transitions, target_status) ==
    {n \in DOMAIN transitions :
        \/ Lower(transitions[n].name) = Lower(target_status)
        \/ Lower(transitions[n].to) = Lower(target_status)}

\* return True, whatever the POST of the transition answers
execute_jira_transition(config, transitions, target_status, response) ==
    IF ~config THEN "false"
    ELSE IF transitions = NoTransitions THEN "false"
    ELSE IF Matching(transitions, target_status) = {} THEN "false"
    ELSE IF ~transitions[Least(Matching(transitions, target_status))].id THEN "raise"
    ELSE IF response \in Responses THEN "true" ELSE "false"

\* What the request of a primitive changes the issue to.
Payload(update) ==
    IF update.type = "comment" THEN update.content ELSE update.suggested

\* The primitive an update is handed to, and with what.
CallOf(jira_key, update) == <<update.type, jira_key, Payload(update)>>

\* Whether the primitive sends its mutating request, and the tracker accepts it.
Accepted(config, update, transitions, response) ==
    /\ config
    /\ response = "accept"
    /\ update.type = "transition" =>
           /\ transitions # NoTransitions
           /\ Matching(transitions, update.suggested) # {}
           /\ transitions[Least(Matching(transitions, update.suggested))].id

TrackerApply(issues, jira_key, update, now) ==
    CASE update.type = "comment" ->
             [issues EXCEPT ![jira_key].last_comment_date = <<Today(now), now % DayHours>>]
      [] update.type = "due_date" ->
             [issues EXCEPT ![jira_key].due_date = update.suggested]
      [] OTHER -> [issues EXCEPT ![jira_key].status = "Done"]

fallback_to_clipboard(update) ==
    CASE update.type = "comment" -> <<"clipboard", update.type, update.content>>
      [] update.type = "due_date" -> <<"clipboard", update.type, <<"Due date:", update.suggested>>>>
      [] OTHER -> <<"clipboard", update.type, <<"Status:", update.suggested>>>>

Primitive(config, update, transitions, response) ==
    CASE update.type = "comment" -> execute_jira_comment(config, response)
      [] update.type = "due_date" -> execute_jira_due_date(config, response)
      [] OTHER -> execute_jira_transition(config, transitions, update.suggested, response)

\* execute_jira_update, were a failure not to reach the clipboard.
ExecuteNoFallback(config, jira_key, update, transitions, response) ==
    LET answer == Primitive(config, update, transitions, response)
    IN  [success |-> answer = "true",
         did |-> <<<<"call", CallOf(jira_key, update), answer>>>>]

\* The result, and what the executor did: the call of the primitive, then
\* the clipboard fallback when the primitive answered "false" or raised.
execute_jira_update(config, jira_key, update, transitions, response) ==
    LET answer == Primitive(config, update, transitions, response)
        call == <<"call", CallOf(jira_key, update), answer>>
    IN  IF answer = "true"
        THEN [success |-> TRUE, did |-> <<call>>]
        ELSE [success |-> FALSE, did |-> <<call, fallback_to_clipboard(update)>>]

(***************************************************************************)
(* edit_jira_update: what the operator leaves in the editor decides.       *)
(***************************************************************************)
EditedDate == Today(StartHour) + 3
\* A 'New:' line that begins with a date and goes on ("2025-01-09 or so"):
\* no date, written as a number that no day has.
EditedDateWithTail == 0 - EditedDate
EditedText == [text |-> "rewritten"]

EditorOutcomes(update_type) ==
    CASE update_type = "comment" -> {"missing", "error", "empty", "declined", "confirmed"}
      [] update_type = "due_date" -> {"missing", "error", "no_new_line", "bad_date", "date_with_tail",
                                      "good_date"}
      [] OTHER -> {"unused"}

\* "raise": the editor cannot be started; "none": None is returned.
edit_jira_update(update, editor) ==
    CASE update.type \notin {"comment", "due_date"} -> [result |-> "none", update |-> update]
      [] editor = "missing" -> [result |-> "raise", update |-> update]
      [] editor = "good_date" ->
             [result |-> "update", update |-> [update EXCEPT !.suggested = EditedDate]]
      \* re.match(r'\d{4}-\d{2}-\d{2}', new_date) looks at the beginning only
      [] editor = "date_with_tail" ->
             [result |-> "update", update |-> [update EXCEPT !.suggested = EditedDateWithTail]]
      [] editor = "confirmed" ->
             [result |-> "update", update |-> [update EXCEPT !.content = EditedText]]
      [] OTHER -> [result |-> "none", update |-> update]

log_agent_feedback(workflow, suggestion_type, action) ==
    <<"feedback", workflow, suggestion_type, action>>

NoSession == [active |-> FALSE]
NoPure == [fn |-> "none"]

(***************************************************************************)
(* The state machine.                                                      *)
(***************************************************************************)
Init ==
    /\ \E world \in InitialWorlds : tasks = world.tasks /\ remote = world.remote
    /\ clock = StartHour
    /\ used = [ticks |-> 0, scans |-> 0, crashes |-> 0, decisions |-> 0]
    /\ pending = NoFile
    /\ sess = NoSession
    /\ calls = <<>>
    /\ ev = [op |-> "idle"]
    /\ pure = NoPure

\* No command is running and the last one has returned to the shell.
AtShell == ~sess.active /\ ev.op = "idle"

\* Time passes between two commands while a batch waits for its review.
Tick ==
    /\ AtShell
    /\ pending.exists
    /\ used.ticks < MaxTicks
    /\ \E days \in {1, 2} : clock' = clock + days * DayHours
    /\ used' = [used EXCEPT !.ticks = @ + 1]
    /\ UNCHANGED <<tasks, remote, pending, sess, calls, ev, pure>>

\* The command jira-detect.
Detect ==
    /\ AtShell
    /\ used.scans < MaxScans
    /\ \E env \in ScanEnvs(tasks) :
          LET suggestions == scan_tasks_for_jira_updates(tasks, remote, env, Today(clock))
          IN  /\ pending' = jira_sync_detect(suggestions, clock, pending)
              /\ calls' = IF suggestions = <<>> THEN calls ELSE <<>>
              /\ ev' = [op |-> "detect", result |-> suggestions,
                        fetched |-> FetchesFrom(TaskFiles, tasks, env)]
    /\ used' = [used EXCEPT !.scans = @ + 1]
    /\ UNCHANGED <<tasks, remote, clock, sess, pure>>

\* main: the command returns (or the process dies) and the shell is back.
Return ==
    /\ ~sess.active
    /\ ev.op # "idle"
    /\ ev' = [op |-> "idle"]
    /\ calls' = IF pending.exists THEN calls ELSE <<>>
    /\ UNCHANGED <<tasks, remote, clock, used, pending, sess, pure>>

\* Settle, were the loop to go back to the first update after a decision.
SettleBack(suggestions, i, j) == [done |-> FALSE, i |-> 1, j |-> 1]

\* The update the loop presents next, from (i, j) on: the for loops.
RECURSIVE Settle(_, _, _)
Settle(suggestions, i, j) ==
    IF i > Len(suggestions) THEN [done |-> TRUE, i |-> i, j |-> j]
    ELSE IF j > Len(suggestions[i].updates) THEN Settle(suggestions, i + 1, 1)
    ELSE [done |-> FALSE, i |-> i, j |-> j]

\* Stale, were a file of exactly 24 hours stale as well.
StaleFromDayOn(generated, now) == now - generated >= StaleHours

\* age_hours > 24
Stale(generated, now) == now - generated > StaleHours

\* Unlink, were the file left in place.
UnlinkKeeps(file) == file

\* pending_file.unlink()
Unlink(file) == NoFile

\* The command jira-sync, up to its first prompt for a decision.
StartReview ==
    /\ AtShell
    /\ \E config \in BOOLEAN, answer \in {"y", "n"} :
          IF ~pending.exists
          THEN /\ ev' = [op |-> "review", outcome |-> "no_file"]
               /\ UNCHANGED <<pending, sess>>
          ELSE IF pending.suggestions = <<>>
          THEN /\ pending' = Unlink(pending)
               /\ ev' = [op |-> "review", outcome |-> "empty"]
               /\ UNCHANGED sess
          ELSE IF Stale(pending.generated, clock) /\ answer # "y"
          THEN /\ ev' = [op |-> "review", outcome |-> "declined"]
               /\ UNCHANGED <<pending, sess>>
          ELSE LET at == Settle(pending.suggestions, 1, 1)
               IN  IF at.done
                   THEN /\ pending' = Unlink(pending)
                        /\ ev' = [op |-> "review", outcome |-> "complete"]
                        /\ UNCHANGED sess
                   ELSE /\ sess' = [active |-> TRUE, config |-> config,
                                    suggestions |-> pending.suggestions,
                                    i |-> at.i, j |-> at.j,
                                    approved_count |-> 0, skipped_count |-> 0,
                                    failed_count |-> 0]
                        /\ ev' = [op |-> "review",
                                  outcome |-> IF Stale(pending.generated, clock)
                                              THEN "confirmed" ELSE "started"]
                        /\ UNCHANGED pending
    /\ UNCHANGED <<tasks, remote, clock, used, calls, pure>>

Card == sess.suggestions[sess.i]
Presented == Card.updates[sess.j]

\* Remaining, were the updates of the current card not cut at all.
RemainingWhole(suggestions, i, j) == Drop(suggestions, i - 1)

\* Remaining, were the updates of the current card cut after the presented one.
RemainingAfter(suggestions, i, j) ==
    LET remaining == Drop(suggestions, i - 1)
    IN  [remaining EXCEPT ![1].updates = Drop(suggestions[i].updates, j)]

\* remaining = suggestions[i-1:]; remaining[0]['updates'] = updates[j-1:]
Remaining(suggestions, i, j) ==
    LET remaining == Drop(suggestions, i - 1)
    IN  [remaining EXCEPT ![1].updates = Drop(suggestions[i].updates, j - 1)]

\* The loop goes on to the next update; after the last one the pending file
\* is deleted and the command ends.
Advance(suggestions, approved, skipped, failed) ==
    LET at == Settle(suggestions, sess.i, sess.j + 1)
    IN  /\ sess' = IF at.done THEN NoSession
                   ELSE [sess EXCEPT !.suggestions = suggestions,
                                     !.i = at.i, !.j = at.j,
                                     !.approved_count = @ + approved,
                                     !.skipped_count = @ + skipped,
                                     !.failed_count = @ + failed]
        /\ pending' = IF at.done THEN Unlink(pending) ELSE pending

Ended(suggestions) ==
    IF Settle(suggestions, sess.i, sess.j + 1).done THEN "complete" ELSE "no"

Step(op, outcome, ended, did) ==
    [op |-> op, i |-> sess.i, j |-> sess.j, jira_key |-> Card.jira_key,
     update |-> Presented, outcome |-> outcome, ended |-> ended, did |-> did]

TransitionAnswers(update) ==
    IF update.type = "transition" THEN TransitionLists \cup {NoTransitions}
    ELSE {NoTransitions}

\* Executes, were Skip to hand the update to the executor as well.
ExecutesOnSkip(choice, edited) ==
    \/ choice \in {"a", "s"}
    \/ choice = "e" /\ edited.result = "update"

\* Whether a decision hands the update to the executor.
Executes(choice, edited) ==
    \/ choice = "a"
    \/ choice = "e" /\ edited.result = "update"

\* success: count, audit line, feedback; failure: count, feedback.
Execute(op, update, approved_action, transitions, response) ==
    LET result == execute_jira_update(sess.config, Card.jira_key, update,
                                      transitions, response)
        log_entry == LogEntry(Card.jira_key, update, Today(clock))
        content == tasks[Card.task_file]
        logged == log_to_task_progress(content, log_entry)
        audit == IF logged = content THEN <<>>
                 ELSE <<<<"audit", Card.task_file, log_entry>>>>
        suggestions == [sess.suggestions EXCEPT ![sess.i].updates[sess.j] = update]
        did == IF result.success
               THEN result.did \o audit
                        \o <<log_agent_feedback("jira_sync", Presented.type, approved_action)>>
               ELSE result.did
                        \o <<log_agent_feedback("jira_sync", Presented.type, "failed")>>
    IN  /\ tasks' = IF result.success THEN [tasks EXCEPT ![Card.task_file] = logged]
                    ELSE tasks
        /\ remote' = IF Accepted(sess.config, update, transitions, response)
                     THEN TrackerApply(remote, Card.jira_key, update, clock)
                     ELSE remote
        /\ calls' = Append(calls, CallOf(Card.jira_key, update))
        /\ ev' = Step(op, IF result.success THEN approved_action ELSE "failed",
                      Ended(suggestions), did)
        /\ IF result.success THEN Advance(suggestions, 1, 0, 0)
           ELSE Advance(suggestions, 0, 0, 1)

\* No execution: count as skipped, feedback.
Pass(op, action) ==
    LET did == <<log_agent_feedback("jira_sync", Presented.type, action)>>
    IN  /\ ev' = Step(op, action, Ended(sess.suggestions), did)
        /\ Advance(sess.suggestions, 0, 1, 0)
        /\ UNCHANGED <<tasks, remote, calls>>

Decided == used' = [used EXCEPT !.decisions = @ + 1]

Approve ==
    /\ sess.active
    /\ used.decisions < MaxDecisions
    /\ \E response \in Responses, transitions \in TransitionAnswers(Presented) :
          /\ Executes("a", [result |-> "none"])
          /\ Execute("approve", Presented, "approved", transitions, response)
    /\ Decided
    /\ UNCHANGED <<clock, pure>>

Edit ==
    /\ sess.active
    /\ \E editor \in EditorOutcomes(Presented.type), response \in Responses,
          transitions \in TransitionAnswers(Presented) :
          LET edited == edit_jira_update(Presented, editor)
          IN  IF edited.result = "raise"
              THEN /\ used.crashes < MaxCrashes
                   /\ used' = [used EXCEPT !.crashes = @ + 1]
                   /\ sess' = NoSession
                   /\ ev' = Step("edit", "raise", "crash", <<>>)
                   /\ UNCHANGED <<tasks, remote, pending, calls>>
              ELSE /\ used.decisions < MaxDecisions
                   /\ IF Executes("e", edited)
                      THEN Execute("edit", edited.update, "approved_edited",
                                   transitions, response)
                      ELSE Pass("edit", "edit_cancelled")
                   /\ Decided
    /\ UNCHANGED <<clock, pure>>

Skip ==
    /\ sess.active
    /\ used.decisions < MaxDecisions
    /\ IF Executes("s", [result |-> "none"])
       THEN \E response \in Responses :
               Execute("skip", Presented, "approved", NoTransitions, response)
       ELSE Pass("skip", "skipped")
    /\ Decided
    /\ UNCHANGED <<clock, pure>>

Quit ==
    /\ sess.active
    /\ pending' = save_pending_jira_updates(
                      Remaining(sess.suggestions, sess.i, sess.j), clock)
    /\ sess' = NoSession
    /\ ev' = Step("quit", "quit", "quit", <<>>)
    /\ UNCHANGED <<tasks, remote, clock, used, calls, pure>>

Next ==
    Tick \/ Detect \/ Return \/ StartReview \/ Approve \/ Edit \/ Skip \/ Quit

Spec == Init /\ [][Next]_vars

(***************************************************************************)
(* The audit logger and the gap detector on arbitrary inputs.  The rest of *)
(* the program stands still while one function is applied to one input.    *)
(***************************************************************************)
Standstill ==
    /\ tasks = Store(<<>>, <<>>)
    /\ remote = Tracker(IssueClosed, IssueClosed)
    /\ clock = StartHour
    /\ used = [ticks |-> 0, scans |-> 0, crashes |-> 0, decisions |-> 0]
    /\ pending = NoFile
    /\ sess = NoSession
    /\ calls = <<>>
    /\ ev = [op |-> "idle"]

SeqsUpTo(S, n) == UNION {[1..m -> S] : m \in 0..n}

\* Record texts of at most MaxTextLen tokens.
PatchTokens == {NL, CH, HDR, SEC, Ent(2, Txt("a", 20))}
PatchUpdates ==
    {[type |-> "comment", content |-> EditedText],
     [type |-> "due_date", current |-> 5, suggested |-> 6]}

InitPatch ==
    /\ Standstill
    /\ pure \in {[fn |-> "log_to_task_progress", done |-> FALSE, content |-> t,
                  update |-> u, log_entry |-> <<>>, result |-> <<>>] :
                    t \in SeqsUpTo(PatchTokens, MaxTextLen), u \in PatchUpdates}

ApplyPatch ==
    /\ pure.fn = "log_to_task_progress"
    /\ ~pure.done
    /\ LET log_entry == LogEntry("MRC-1", pure.update, Today(clock))
       IN  pure' = [pure EXCEPT !.done = TRUE,
                                !.log_entry = log_entry,
                                !.result = log_to_task_progress(pure.content, log_entry)]
    /\ UNCHANGED <<tasks, remote, clock, used, pending, sess, calls, ev>>

SpecPatch == InitPatch /\ [][ApplyPatch]_vars

\* Note logs of at most MaxEntries entries, in any order of their dates, and
\* the snapshots they are compared with.  The dates are days after the epoch.
DetectDates == {EpochDate + d : d \in 1..MaxPoints}

RECURSIVE EntryLines(_, _)
EntryLines(dates, n) ==
    IF n > Len(dates) THEN <<>>
    ELSE <<Ent(dates[n], Txt("e", 20 + n)), NL>> \o EntryLines(dates, n + 1)

DetectText(status, due, dates) ==
    Front(status, due) \o <<KeyTok("MRC-1"), NL, HDR, NL>> \o EntryLines(dates, 1)

DetectSnapshots ==
    {Issue(status, due, last) :
        status \in {"In Progress", "Done", "CLOSED"},
        due \in {NoDate, 5, 6},
        last \in {<<>>} \cup {<<d, 9>> : d \in DetectDates}}

InitDetect ==
    /\ Standstill
    /\ pure \in {[fn |-> "detect_jira_gaps", done |-> FALSE, dates |-> dates,
                  text |-> DetectText(status, due, dates), jira_state |-> jira_state,
                  result |-> <<>>, twice |-> FALSE, again |-> <<>>] :
                    dates \in SeqsUpTo(DetectDates, MaxEntries),
                    status \in {"s", "d"}, due \in {NoDate, 5},
                    jira_state \in DetectSnapshots}

ApplyDetect ==
    /\ pure.fn = "detect_jira_gaps"
    /\ ~pure.done
    /\ pure' = [pure EXCEPT !.done = TRUE,
                            !.result = detect_jira_gaps(pure.text,
                                           parse_task_frontmatter(pure.text),
                                           pure.jira_state, Today(clock))]
    /\ UNCHANGED <<tasks, remote, clock, used, pending, sess, calls, ev>>

\* A second call on the same record and the same snapshot, the same day or a
\* later one: today is datetime.now() at the time of the call.
ApplyDetectAgain ==
    /\ pure.fn = "detect_jira_gaps"
    /\ pure.done
    /\ ~pure.twice
    /\ \E days \in 0..MaxTicks :
          pure' = [pure EXCEPT !.twice = TRUE,
                               !.again = detect_jira_gaps(pure.text,
                                             parse_task_frontmatter(pure.text),
                                             pure.jira_state,
                                             Today(clock + days * DayHours))]
    /\ UNCHANGED <<tasks, remote, clock, used, pending, sess, calls, ev>>

SpecDetect == InitDetect /\ [][ApplyDetect \/ ApplyDetectAgain]_vars

(***************************************************************************)
(* Properties.                                                             *)
(***************************************************************************)
\* What a step of the review loop is, read off the step itself.
Decides == sess.active /\ ev'.op \in {"approve", "edit", "skip"} /\ ev'.outcome # "raise"
LastCall == calls'[Len(calls')]
AtLastUpdate == sess.i = Len(sess.suggestions) /\ sess.j = Len(Card.updates)
Count(did, kind) == Cardinality({n \in DOMAIN did : did[n][1] = kind})
CountFeedback(did, actions) ==
    Cardinality({n \in DOMAIN did : did[n][1] = "feedback" /\ did[n][4] \in actions})

\* C1: a primitive of the executor is called, and the tracker changes, only
\* in a step in which the operator approves the presented update or confirms
\* an edit of it, and the call is about that update; no other step, the scan
\* included, calls a primitive or changes the tracker.
NoUnsupervisedMutation ==
    [][(remote' # remote \/ Len(calls') > Len(calls)) =>
          /\ sess.active
          /\ ev'.op \in {"approve", "edit"}
          /\ ev'.outcome \in {"approved", "approved_edited", "failed"}
          /\ ev'.update = Presented
          /\ calls' = Append(calls, LastCall)
          /\ LastCall[1] = Presented.type
          /\ LastCall[2] = Card.jira_key
          /\ ev'.op = "approve" => LastCall[3] = Payload(Presented)
          /\ remote' # remote =>
                \A k \in Keys \ {Card.jira_key} : remote'[k] = remote[k]]_vars

EditedCallIssued ==
    /\ ev.op = "edit"
    /\ ev.outcome = "approved_edited"
    /\ calls # <<>>
    /\ IF calls[Len(calls)][1] = "due_date" THEN calls[Len(calls)][3] = EditedDate
       ELSE calls[Len(calls)][3] = EditedText

\* The batch that a Quit at update j of card i is to leave: card i with its
\* updates j..end, then the cards after it as they are.
QuitBatch(suggestions, i, j) ==
    [n \in 1..(Len(suggestions) - i + 1) |->
        IF n = 1
        THEN [suggestions[i] EXCEPT
                 !.updates = SubSeq(suggestions[i].updates, j,
                                    Len(suggestions[i].updates))]
        ELSE suggestions[i + n - 1]]

RECURSIVE UpdatesIn(_)
UpdatesIn(suggestions) ==
    IF suggestions = <<>> THEN 0
    ELSE Len(Head(suggestions).updates) + UpdatesIn(Tail(suggestions))

RECURSIVE UpdatesBefore(_, _, _)
UpdatesBefore(suggestions, i, j) ==
    IF i = 1 THEN j - 1
    ELSE Len(suggestions[i - 1].updates) + UpdatesBefore(suggestions, i - 1, j)

\* C2: a Quit at update j of card i persists exactly card i cut to its
\* updates j..end followed by the later cards unchanged and in order; the
\* updates decided before in the session are not in it; the session is over.
QuitPersistsRemainder ==
    [][sess.active /\ ev'.op = "quit" =>
          /\ pending'.exists
          /\ pending'.suggestions = QuitBatch(sess.suggestions, sess.i, sess.j)
          /\ pending'.suggestions[1].updates[1] = Presented
          /\ UpdatesIn(pending'.suggestions)
                 = UpdatesIn(sess.suggestions)
                       - UpdatesBefore(sess.suggestions, sess.i, sess.j)
          /\ ~sess'.active
          /\ tasks' = tasks /\ remote' = remote /\ calls' = calls]_vars

QuitAfterDecision ==
    /\ ev.op = "quit"
    /\ ev.j > 1
    /\ pending.exists
    /\ Len(pending.suggestions) > 1

\* The calls approving everything still undecided would issue, in order.
RECURSIVE CallsOfBatch(_)
CallsOfBatch(suggestions) ==
    IF suggestions = <<>> THEN <<>>
    ELSE [n \in DOMAIN Head(suggestions).updates |->
             CallOf(Head(suggestions).jira_key, Head(suggestions).updates[n])]
         \o CallsOfBatch(Tail(suggestions))

Undecided ==
    IF sess.active THEN QuitBatch(sess.suggestions, sess.i, sess.j)
    ELSE IF pending.exists THEN pending.suggestions
    ELSE <<>>

Plan == calls \o CallsOfBatch(Undecided)

\* C3: approving the presented update issues exactly the next call of the
\* plan, and neither a Quit nor the start of the next session changes the
\* calls issued or the calls still to come; so sessions that approve every
\* update issue, with or without a Quit in between, the calls of the batch.
QuitResumeEquivalence ==
    [][/\ sess.active /\ ev'.op = "approve" =>
             /\ calls' = Append(calls, Head(CallsOfBatch(Undecided)))
             /\ Plan' = Plan
       /\ sess.active /\ ev'.op = "quit" => calls' = calls /\ Plan' = Plan
       /\ ~sess.active /\ sess'.active => calls' = calls /\ Plan' = Plan]_vars

\* A second session approves the one update a Quit left and completes: the
\* first call since the scan was issued by the session that ended in the Quit.
ResumedAndCompleted ==
    /\ ev.op = "approve"
    /\ ev.ended = "complete"
    /\ ev.i = 1 /\ ev.j = 1
    /\ Len(calls) = 2
    /\ used.scans = 1
    /\ used.crashes = 0

\* C4: after a scan the persisted batch is the result of that scan; a batch
\* of an earlier scan or of an earlier Quit does not survive it.
ScanReplacesBatch ==
    ev.op = "detect" /\ pending.exists =>
        pending.suggestions = ev.result /\ pending.generated = clock

\* C5: when the last update of the last card gets its decision the pending
\* file is deleted; a Quit and a declined confirmation leave a pending file.
CompletionDeletesBatch ==
    [][/\ Decides /\ AtLastUpdate => ~pending'.exists /\ ~sess'.active
       /\ Decides /\ ~AtLastUpdate => pending' = pending /\ sess'.active
       /\ sess.active /\ ev'.op = "quit" => pending'.exists
       /\ ev'.op = "review" /\ ev'.outcome = "declined" =>
             pending.exists /\ pending' = pending]_vars

CompletedAfterFailure ==
    /\ ev.op \in {"approve", "edit", "skip"}
    /\ ev.ended = "complete"
    /\ ev.outcome = "failed"
    /\ ~pending.exists

\* C6: when the execution of an approved or edited update fails, the
\* clipboard fallback runs once for that update, one feedback 'failed' is
\* written and none 'approved' or 'approved_edited', no audit line is
\* written, and the loop goes on to the next update.
FailureFallsBackOnce ==
    [][/\ sess.active
       /\ ev'.op \in {"approve", "edit"}
       /\ ev'.did # <<>>
       /\ ev'.did[1][1] = "call"
       /\ ev'.did[1][3] # "true"
       => /\ Count(ev'.did, "clipboard") = 1
          /\ \E n \in DOMAIN ev'.did :
                /\ ev'.did[n][1] = "clipboard"
                /\ ev'.did[n][2] = Presented.type
                /\ ev'.did[n][3] = IF Presented.type = "comment"
                                   THEN LastCall[3]
                                   ELSE <<"Due date:", LastCall[3]>>
          /\ CountFeedback(ev'.did, {"failed"}) = 1
          /\ CountFeedback(ev'.did, {"approved", "approved_edited"}) = 0
          /\ Count(ev'.did, "audit") = 0
          /\ tasks' = tasks
          /\ IF AtLastUpdate THEN ~sess'.active /\ ~pending'.exists
             ELSE /\ sess'.active
                  /\ <<sess'.i, sess'.j>> =
                         IF sess.j < Len(Card.updates) THEN <<sess.i, sess.j + 1>>
                         ELSE <<sess.i + 1, 1>>
                  /\ sess'.failed_count = sess.failed_count + 1]_vars

FailedByException ==
    /\ ev.op \in {"approve", "edit"}
    /\ ev.outcome = "failed"
    /\ ev.did[1][3] = "raise"

\* What the tracker shows once it has accepted the mutation of a call.
MutationVisible(call, issues, now) ==
    CASE call[1] = "comment" ->
             issues[call[2]].last_comment_date = <<Today(now), now % DayHours>>
      [] call[1] = "due_date" -> issues[call[2]].due_date = call[3]
      [] OTHER -> issues[call[2]].status = "Done"

\* C7: an update is counted as approved (and audited) only when the tracker
\* accepted its mutation.
SuccessMeansAccepted ==
    [][sess.active /\ ev'.op \in {"approve", "edit"}
           /\ ev'.outcome \in {"approved", "approved_edited"}
       => MutationVisible(LastCall, remote', clock)]_vars

\* C8: every successful execution puts one audit line into the task record,
\* as the first entry of its note log, and no other step changes a record.
AuditLineOnSuccess ==
    [][/\ sess.active /\ ev'.op \in {"approve", "edit"}
           /\ ev'.outcome \in {"approved", "approved_edited"}
          => LET before == parse_progress_log(tasks[Card.task_file])
                 after == parse_progress_log(tasks'[Card.task_file])
             IN  /\ Count(ev'.did, "audit") = 1
                 /\ Len(after) = Len(before) + 1
                 /\ after[1].date = Today(clock)
                 /\ after[1].content[1] = "sync"
                 /\ Tail(after) = before
                 /\ \A f \in FileSet \ {Card.task_file} : tasks'[f] = tasks[f]
       /\ ~(sess.active /\ ev'.op \in {"approve", "edit"}
               /\ ev'.outcome \in {"approved", "approved_edited"})
          => tasks' = tasks]_vars

\* The text with one line put in at the start of a line of the note log.
InsertedAt(content, p, line) == Take(content, p) \o <<line, NL>> \o Drop(content, p)

InsideLog(content, p) ==
    \E h \in Where(content, "hdr") :
        /\ h < p
        /\ content[p] = NL
        /\ \A q \in (h + 1)..p : Kind(content[q]) \notin {"hdr", "sec"}

\* C9: the patched text is the text itself, or the text with exactly one
\* new line inserted inside the note-log section, all else in place.
PatchOnlyInsideLog ==
    pure.fn = "log_to_task_progress" /\ pure.done =>
        \/ pure.result = pure.content
        \/ \E p \in 1..Len(pure.content) :
              /\ InsideLog(pure.content, p)
              /\ pure.result = InsertedAt(pure.content, p, pure.log_entry)

MaxOf(dates) ==
    CHOOSE d \in {dates[n] : n \in DOMAIN dates} :
        \A n \in DOMAIN dates : d >= dates[n]

\* C10: a comment candidate is emitted exactly when the latest date of all
\* entries, in whatever order they stand, is after the date of the last
\* comment of the snapshot; no last comment is older than every entry.
ProgressByMaximum ==
    pure.fn = "detect_jira_gaps" /\ pure.done =>
        ((\E n \in DOMAIN pure.result : pure.result[n].type = "comment")
            <=> /\ pure.dates # <<>>
                /\ \/ pure.jira_state.last_comment_date = <<>>
                   \/ MaxOf(pure.dates) > pure.jira_state.last_comment_date[1])

\* The dates of a list, latest first.
RECURSIVE SortDesc(_)
SortDesc(dates) ==
    IF dates = <<>> THEN <<>>
    ELSE LET m == CHOOSE n \in DOMAIN dates : \A k \in DOMAIN dates : dates[n] >= dates[k]
         IN  <<dates[m]>> \o SortDesc(SubSeq(dates, 1, m - 1) \o SubSeq(dates, m + 1, Len(dates)))

RECURSIVE DatesAfter(_, _)
DatesAfter(dates, cutoff) ==
    IF dates = <<>> THEN <<>>
    ELSE IF Head(dates) > cutoff THEN <<Head(dates)>> \o DatesAfter(Tail(dates), cutoff)
    ELSE DatesAfter(Tail(dates), cutoff)

\* The comment candidates of a result, and the cutoff of a snapshot.
CommentsOf(result) == {n \in DOMAIN result : result[n].type = "comment"}
CutoffOf(jira_state) ==
    IF jira_state.last_comment_date = <<>> THEN EpochDate
    ELSE jira_state.last_comment_date[1]

\* The date of the entry a point of a comment body was made from: the entry
\* at position n of the note log holds a text of 20 + n characters.
PointDates(pure_dates, points) == [p \in DOMAIN points |-> pure_dates[points[p][3] - 20]]

\* C11: the body of an emitted comment holds the entries dated after the
\* cutoff, latest first and at most three of them (the three latest when
\* more qualify), begins with today's date and ends with next_action.
CommentBodyLatestFirst ==
    pure.fn = "detect_jira_gaps" /\ pure.done =>
        \A n \in CommentsOf(pure.result) :
            LET body == pure.result[n].content
            IN  /\ body.today = Today(clock)
                /\ body.next = parse_task_frontmatter(pure.text).next_action
                /\ PointDates(pure.dates, body.points)
                       = Take(SortDesc(DatesAfter(pure.dates, CutoffOf(pure.jira_state))),
                              MaxPoints)

\* C12: the body of a comment holds only entries dated strictly after the
\* date of the last remote comment, never one of that date or before; when
\* at most three entries are after it the body holds them all; and a note
\* log with no entry after it yields no comment candidate.
ProgressSinceBoundary ==
    pure.fn = "detect_jira_gaps" /\ pure.done =>
        LET cutoff == CutoffOf(pure.jira_state)
            after == DatesAfter(pure.dates, cutoff)
        IN  /\ \A n \in CommentsOf(pure.result) :
                  LET points == pure.result[n].content.points
                      from == {points[p][3] - 20 : p \in DOMAIN points}
                  IN  /\ \A k \in from : pure.dates[k] > cutoff
                      /\ Cardinality(from) = Len(points)
                      /\ Len(after) <= MaxPoints =>
                             from = {k \in DOMAIN pure.dates : pure.dates[k] > cutoff}
            /\ after = <<>> => CommentsOf(pure.result) = {}

CommentLeavesOutCutoffDay ==
    /\ pure.fn = "detect_jira_gaps" /\ pure.done
    /\ pure.jira_state.last_comment_date # <<>>
    /\ CommentsOf(pure.result) # {}
    /\ \E k \in DOMAIN pure.dates : pure.dates[k] = pure.jira_state.last_comment_date[1]

\* The spellings of the terminal statuses among the statuses of the model.
TerminalSpellings ==
    {"done", "Done", "DONE", "closed", "Closed", "CLOSED",
     "resolved", "Resolved", "RESOLVED"}

TransitionsOf(result) == {n \in DOMAIN result : result[n].type = "transition"}

\* C13: a transition candidate is emitted exactly when the local status is
\* done and the remote status is, whatever its case, none of done, closed,
\* resolved; it is then the only one, with current = the remote status as
\* it is spelled, suggested = "Done" and confidence high.
TerminalStatusCheck ==
    pure.fn = "detect_jira_gaps" /\ pure.done =>
        LET fires == /\ parse_task_frontmatter(pure.text).status = "d"
                     /\ pure.jira_state.status \notin TerminalSpellings
        IN  /\ fires <=> TransitionsOf(pure.result) # {}
            /\ Cardinality(TransitionsOf(pure.result)) <= 1
            /\ \A n \in TransitionsOf(pure.result) :
                  /\ pure.result[n].current = pure.jira_state.status
                  /\ pure.result[n].suggested = "Done"
                  /\ pure.result[n].confidence = "high"

TransitionEmitted ==
    /\ pure.fn = "detect_jira_gaps" /\ pure.done
    /\ pure.jira_state.status = "In Progress"
    /\ TransitionsOf(pure.result) # {}

DueDatesOf(result) == {n \in DOMAIN result : result[n].type = "due_date"}

\* C14: exactly one due_date candidate (confidence medium, suggested = the
\* local date, current = the remote date or the not-set marker) is emitted
\* when both dates are set and differ or when only the local one is set;
\* none when both are unset, when they are equal, or when only the remote
\* one is set.
DueDateCheckCases ==
    pure.fn = "detect_jira_gaps" /\ pure.done =>
        LET local == parse_task_frontmatter(pure.text).due_date
            far == pure.jira_state.due_date
            found == DueDatesOf(pure.result)
        IN  /\ local # NoDate /\ far # NoDate /\ local # far =>
                  /\ Cardinality(found) = 1
                  /\ \A n \in found : pure.result[n].current = far
            /\ local # NoDate /\ far = NoDate =>
                  /\ Cardinality(found) = 1
                  /\ \A n \in found : pure.result[n].current = NotSet
            /\ \A n \in found :
                  /\ pure.result[n].suggested = local
                  /\ pure.result[n].confidence = "medium"
            /\ local = NoDate => found = {}
            /\ local = far => found = {}

DueDateForUnsetRemote ==
    /\ pure.fn = "detect_jira_gaps" /\ pure.done
    /\ pure.jira_state.due_date = NoDate
    /\ DueDatesOf(pure.result) # {}

(***************************************************************************)
(* The scan on arbitrary stores: every pair of the sample records, and a   *)
(* file whose read fails (each parser catches the error and answers as for *)
(* a text that holds nothing).                                             *)
(***************************************************************************)
TextUnreadable == <<<<"unreadable">>>>

ScanTexts ==
    {TextNewestFirst, TextOldestFirst, TextNoLog, TextBareHeader, TextDone,
     TextDoneOpen, TextNoKey, TextUnreadable}

\* The (file, key) pairs the scan fetches, in the order it fetches them.
RECURSIVE PairsOf(_, _)
PairsOf(task_file, jira_keys) ==
    IF jira_keys = <<>> THEN <<>>
    ELSE <<<<task_file, Head(jira_keys)>>>> \o PairsOf(task_file, Tail(jira_keys))

RECURSIVE FetchPairsFrom(_, _, _)
FetchPairsFrom(task_files, files, env) ==
    IF task_files = <<>> THEN <<>>
    ELSE IF SkipsTask(parse_task_frontmatter(files[Head(task_files)]))
         THEN FetchPairsFrom(Tail(task_files), files, env)
         ELSE PairsOf(Head(task_files), env.order[Head(task_files)])
                  \o FetchPairsFrom(Tail(task_files), files, env)

InitScan ==
    /\ Standstill
    /\ pure \in {[fn |-> "scan_tasks_for_jira_updates", stage |-> 0,
                  files |-> Store(a, b), issues |-> Tracker(x, IssueClosed),
                  env |-> [config |-> TRUE, order |-> <<>>, answered |-> <<>>],
                  result |-> <<>>, fetched |-> <<>>, again |-> <<>>] :
                    a \in ScanTexts, b \in ScanTexts, x \in {IssueBehind, IssueFresh}}

\* One scan, in an environment of its own.
ApplyScan ==
    /\ pure.fn = "scan_tasks_for_jira_updates"
    /\ pure.stage = 0
    /\ \E env \in ScanEnvs(pure.files) :
          pure' = [pure EXCEPT
                      !.stage = 1,
                      !.env = env,
                      !.result = scan_tasks_for_jira_updates(pure.files, pure.issues,
                                                             env, Today(clock)),
                      !.fetched = FetchPairsFrom(TaskFiles, pure.files, env)]
    /\ UNCHANGED <<tasks, remote, clock, used, pending, sess, calls, ev>>

\* The next scan, by another run of the program: the same files, the same
\* issues, the same answers; list(set) orders the keys as that run hashes them.
ApplyRescan ==
    /\ pure.fn = "scan_tasks_for_jira_updates"
    /\ pure.stage = 1
    /\ \E env \in ScanEnvs(pure.files) :
          /\ env.config = pure.env.config
          /\ env.answered = pure.env.answered
          /\ pure' = [pure EXCEPT
                         !.stage = 2,
                         !.again = scan_tasks_for_jira_updates(pure.files, pure.issues,
                                                               env, Today(clock))]
    /\ UNCHANGED <<tasks, remote, clock, used, pending, sess, calls, ev>>

SpecScan == InitScan /\ [][ApplyScan \/ ApplyRescan]_vars

\* The record is marked done in its frontmatter.
MarkedDone(text) == \E p \in DOMAIN text : text[p] = Field("status", "d")
Scanned == pure.fn = "scan_tasks_for_jira_updates" /\ pure.stage >= 1
CardsFor(result, task_file) == {n \in DOMAIN result : result[n].task_file = task_file}

\* C15: no card of a batch produced by a scan names a record that was done
\* when it was scanned.
NoCardForDoneRecord ==
    Scanned => \A n \in DOMAIN pure.result : ~MarkedDone(pure.files[pure.result[n].task_file])

DoneRecordPassedOver ==
    /\ Scanned
    /\ pure.env.config
    /\ \E f \in FileSet :
          /\ MarkedDone(pure.files[f])
          /\ \E p \in DOMAIN pure.files[f] : Kind(pure.files[f][p]) = "key"
          /\ \A k \in extract_jira_keys(pure.files[f]) : pure.env.answered[<<f, k>>]
    /\ pure.result # <<>>

\* Whether the fetch of a key for a file gave no snapshot in the scan.
FetchFailed(env, pair) == ~env.config \/ ~env.answered[pair]

\* The batch of the same scan had every fetch been answered.
AllAnswered(env) ==
    [config |-> TRUE, order |-> env.order,
     answered |-> [pair \in DOMAIN env.answered |-> TRUE]]

RECURSIVE Without(_, _)
Without(cards, env) ==
    IF cards = <<>> THEN <<>>
    ELSE IF FetchFailed(env, <<Head(cards).task_file, Head(cards).jira_key>>)
         THEN Without(Tail(cards), env)
         ELSE <<Head(cards)>> \o Without(Tail(cards), env)

\* C16: a key whose fetch fails contributes no card, and the batch is the
\* batch of the scan with every fetch answered less the cards of the failed
\* keys: the keys and the records after a failure are fetched and checked.
FetchFailureSkipsOneKey ==
    Scanned =>
        /\ \A n \in DOMAIN pure.result :
              ~FetchFailed(pure.env, <<pure.result[n].task_file, pure.result[n].jira_key>>)
        /\ pure.result =
               Without(scan_tasks_for_jira_updates(pure.files, pure.issues,
                                                   AllAnswered(pure.env), Today(clock)),
                       pure.env)

CardAfterFailedFetch ==
    /\ Scanned
    /\ \E p \in DOMAIN pure.fetched, n \in DOMAIN pure.result :
          /\ FetchFailed(pure.env, pure.fetched[p])
          /\ \E q \in DOMAIN pure.fetched :
                /\ q > p
                /\ pure.fetched[q] = <<pure.result[n].task_file, pure.result[n].jira_key>>
                /\ pure.fetched[q][1] = pure.fetched[p][1]

\* C17: in one scan no key is fetched more than once, also when two
\* records name the same key.
OneFetchPerKey ==
    Scanned =>
        \A p, q \in DOMAIN pure.fetched :
            pure.fetched[p][2] = pure.fetched[q][2] => p = q

\* The text holds no tracker identifier: no key in its fields and none in a
\* logged entry; a file that cannot be read gives no text to match.
NoIdentifier(text) ==
    \A p \in DOMAIN text :
        /\ Kind(text[p]) # "key"
        /\ IF Kind(text[p]) = "ent" THEN text[p][3][1] # "sync" ELSE TRUE

FetchesFor(fetched, task_file) == {p \in DOMAIN fetched : fetched[p][1] = task_file}

\* C18: a record whose text holds no identifier, or that cannot be read, has
\* an empty key set, is fetched for no key and has no card in the batch,
\* whatever its fields and whatever the tracker holds.
NoIdentifierNoCard ==
    Scanned =>
        \A f \in FileSet :
            NoIdentifier(pure.files[f]) =>
                /\ extract_jira_keys(pure.files[f]) = {}
                /\ FetchesFor(pure.fetched, f) = {}
                /\ CardsFor(pure.result, f) = {}

KeylessRecordBesideCard ==
    /\ Scanned
    /\ pure.result # <<>>
    /\ \E f \in FileSet :
          /\ NoIdentifier(pure.files[f])
          /\ ~MarkedDone(pure.files[f])
          /\ pure.files[f] # TextUnreadable

\* C19: two calls of detect_jira_gaps on the same record and the same
\* snapshot return the same list of updates, whenever the calls happen.
DetectIsPure ==
    pure.fn = "detect_jira_gaps" /\ pure.twice => pure.again = pure.result

\* C20: a second scan over the same records and the same tracker state
\* gives the same batch: the same cards in the same order, each with the
\* same updates in the same order.
ScanIdempotent ==
    pure.fn = "scan_tasks_for_jira_updates" /\ pure.stage = 2 => pure.again = pure.result

\* C21: a review session that is presenting updates ends only by Quit or
\* after its last update; no failure of the executor, the clipboard, the
\* audit line, the feedback log or the editor ends it.
LoopEndsOnlyByQuitOrCompletion ==
    [][sess.active /\ ~sess'.active => ev'.ended \in {"quit", "complete"}]_vars

\* The session a review starts with on a batch that needs no confirmation.
FreshSession(file, config) ==
    LET at == Settle(file.suggestions, 1, 1)
    IN  [active |-> TRUE, config |-> config, suggestions |-> file.suggestions,
         i |-> at.i, j |-> at.j,
         approved_count |-> 0, skipped_count |-> 0, failed_count |-> 0]

\* C22: a review of a batch generated more than 24 hours ago asks for a
\* confirmation first; declining ends the command with the batch, the
\* tracker, the task records and the feedback log unchanged; confirming
\* starts the session a fresh batch would start; a batch at most 24 hours
\* old is never asked about.
StaleBatchConfirmation ==
    [][ev'.op = "review" /\ pending.exists /\ pending.suggestions # <<>> =>
          LET age == clock - pending.generated
          IN  /\ age > StaleHours => ev'.outcome # "started"
              /\ age <= StaleHours => ev'.outcome \notin {"declined", "confirmed"}
              /\ ev'.outcome = "declined" =>
                    /\ ~sess'.active
                    /\ DOMAIN ev' = {"op", "outcome"}
                    /\ UNCHANGED <<pending, remote, tasks, calls>>
              /\ ev'.outcome \in {"confirmed", "started"} =>
                    /\ \E config \in BOOLEAN : sess' = FreshSession(pending, config)
                    /\ UNCHANGED <<pending, remote, tasks, calls>>]_vars

StaleBatchDeclined ==
    /\ ev.op = "review"
    /\ ev.outcome = "declined"
    /\ pending.exists
    /\ clock - pending.generated > StaleHours

\* What an Edit step did, by kind.
DidOf(did, kind) == {n \in DOMAIN did : did[n][1] = kind}

\* A date in the format YYYY-MM-DD and nothing else.
WellFormedDate(date) == date \in Nat /\ date >= EpochDate

\* C23: an Edit whose result is invalid or cancelled hands nothing to the
\* executor, writes no audit line, logs the one feedback event
\* edit_cancelled and goes on to the next update; so an Edit that does reach
\* the executor carries a confirmed text or a date in the format YYYY-MM-DD.
InvalidEditNeverExecutes ==
    [][ev'.op = "edit" /\ ev'.outcome # "raise" =>
          IF ev'.outcome = "edit_cancelled"
          THEN /\ ev'.did = <<log_agent_feedback("jira_sync", Presented.type,
                                                 "edit_cancelled")>>
               /\ UNCHANGED <<tasks, remote, calls>>
               /\ IF AtLastUpdate THEN ~sess'.active /\ ~pending'.exists
                  ELSE /\ sess'.active
                       /\ sess'.suggestions = sess.suggestions
                       /\ \/ sess'.i = sess.i /\ sess'.j = sess.j + 1
                          \/ sess'.i = sess.i + 1 /\ sess'.j = 1
          ELSE \A n \in DidOf(ev'.did, "call") :
                  ev'.did[n][2][1] = "due_date" => WellFormedDate(ev'.did[n][2][3])]_vars

(***************************************************************************)
(* The program and the detector side by side: the commands of the program  *)
(* from its initial state, or the detector applied to one input.           *)
(***************************************************************************)
InitOrder == Init \/ InitDetect
Program == pure = NoPure /\ Next
NextOrder == Program \/ ApplyDetect \/ ApplyDetectAgain
SpecOrder == InitOrder /\ [][NextOrder]_vars

TypeRank(type) ==
    CASE type = "comment" -> 1
      [] type = "due_date" -> 2
      [] OTHER -> 3

InEmissionOrder(updates) ==
    \A p, q \in DOMAIN updates :
        p < q => TypeRank(updates[p].type) < TypeRank(updates[q].type)

TypesOf(updates) == {updates[n].type : n \in DOMAIN updates}

\* C24: detect_jira_gaps returns at most three updates, at most one of each
\* type, in the order comment, due_date, transition, and each check fires
\* or not whatever the other two do; the review presents the cards in the
\* order of the batch and the updates of a card in the order they are stored.
CandidateOrdering ==
    /\ pure.fn = "detect_jira_gaps" /\ pure.done =>
          LET task_data == parse_task_frontmatter(pure.text)
              progress == ProgressCheck(parse_progress_log(pure.text), task_data,
                                        pure.jira_state, Today(clock))
          IN  /\ Len(pure.result) <= 3
              /\ InEmissionOrder(pure.result)
              /\ TypesOf(pure.result) =
                     TypesOf(progress) \cup TypesOf(DueDateCheck(task_data, pure.jira_state))
                         \cup TypesOf(StatusCheck(task_data, pure.jira_state))
    /\ ev.op = "detect" => \A n \in DOMAIN ev.result : InEmissionOrder(ev.result[n].updates)
    /\ sess.active =>
          /\ UpdatesBefore(sess.suggestions, sess.i, sess.j)
                 = sess.approved_count + sess.skipped_count + sess.failed_count
          /\ sess.j \in DOMAIN Card.updates
          /\ [n \in DOMAIN sess.suggestions |->
                 [m \in DOMAIN sess.suggestions[n].updates |->
                     sess.suggestions[n].updates[m].type]]
               = [n \in DOMAIN pending.suggestions |->
                     [m \in DOMAIN pending.suggestions[n].updates |->
                         pending.suggestions[n].updates[m].type]]

AllThreeChecksFire ==
    /\ pure.fn = "detect_jira_gaps"
    /\ pure.done
    /\ Len(pure.result) = 3

Counted(session) ==
    session.approved_count + session.skipped_count + session.failed_count

FeedbackActions(did) == {did[n][4] : n \in DidOf(did, "feedback")}

\* C25: every decision other than Quit logs exactly one feedback event, whose
\* action tells the outcome: skipped for Skip, which calls no executor;
\* approved or failed for Approve; approved_edited, failed or edit_cancelled
\* for Edit; Quit logs none.  The three counters of the session go up by one
\* with each such decision.
OneFeedbackPerDecision ==
    [][sess.active /\ ev'.op \in {"approve", "edit", "skip", "quit"} =>
          IF ev'.op = "quit" THEN ev'.did = <<>>
          ELSE /\ Cardinality(DidOf(ev'.did, "feedback")) = 1
               /\ FeedbackActions(ev'.did) = {ev'.outcome}
               /\ ev'.op = "skip" =>
                     ev'.outcome = "skipped" /\ DidOf(ev'.did, "call") = {}
               /\ ev'.op = "approve" =>
                     /\ ev'.outcome \in {"approved", "failed"}
                     /\ ev'.outcome = "approved" <=>
                            \E n \in DidOf(ev'.did, "call") : ev'.did[n][3] = "true"
               /\ ev'.op = "edit" =>
                     ev'.outcome \in {"approved_edited", "failed", "edit_cancelled"}
               /\ sess'.active => Counted(sess') = Counted(sess) + 1]_vars

\* C26: no batch that a scan leaves in the pending file holds a transition:
\* the scan passes over the records marked done, and only a record marked
\* done gets a transition from the detector.
NoTransitionInScannedBatch ==
    /\ Scanned => \A n \in DOMAIN pure.result : TransitionsOf(pure.result[n].updates) = {}
    /\ Scanned => \A n \in DOMAIN pure.again : TransitionsOf(pure.again[n].updates) = {}

DoneRecordBehindTracker ==
    /\ Scanned
    /\ \E f \in FileSet :
          /\ MarkedDone(pure.files[f])
          /\ \E k \in extract_jira_keys(pure.files[f]) :
                StatusCheck(parse_task_frontmatter(pure.files[f]),
                            fetch_jira_issue_state(TRUE, TRUE, pure.issues, k)) # <<>>

\* The undecided updates without the first of them.
RestOf(batch) ==
    IF Len(batch[1].updates) > 1 THEN [batch EXCEPT ![1].updates = Tail(@)]
    ELSE Tail(batch)

Crashes == ev'.op = "edit" /\ ev'.outcome = "raise"

\* C27: between two scans, and as long as every session ends by Quit or by
\* completion, each decision takes the first undecided update of the batch
\* out of it for good and issues at most one call, for that update; nothing
\* else changes what is undecided, so no update is decided or executed
\* twice and none comes back in a later session.
DecidedAtMostOnce ==
    [][ev'.op # "detect" /\ ~Crashes =>
          IF Decides
          THEN /\ Undecided # <<>>
               /\ Undecided[1].updates[1] = Presented
               /\ Undecided[1].jira_key = Card.jira_key
               /\ Undecided' = RestOf(Undecided)
               /\ \/ calls' = calls
                  \/ /\ calls' = Append(calls, LastCall)
                     /\ LastCall[1] = Presented.type
                     /\ LastCall[2] = Card.jira_key
          ELSE Undecided' = Undecided /\ calls' \in {calls, <<>>}]_vars

DecidedInLaterSession ==
    /\ ev.op = "skip"
    /\ ev.i = 1 /\ ev.j = 1
    /\ Len(calls) = 1
    /\ used.scans = 1
    /\ used.crashes = 0
    /\ used.decisions = 2
    /\ sess.active

\* The cards of a scan result for one key of one record that hold a comment
\* quoting the given entry.
QuotingCards(result, task_file, jira_key, content) ==
    {n \in DOMAIN result :
        /\ result[n].task_file = task_file
        /\ result[n].jira_key = jira_key
        /\ \E m \in CommentsOf(result[n].updates) :
              \E p \in DOMAIN result[n].updates[m].content.points :
                  result[n].updates[m].content.points[p] = content}

HeaderLineEnds(text) ==
    /\ Cardinality(Where(text, "hdr")) = 1
    /\ \E h \in Where(text, "hdr") : h < Len(text) /\ text[h + 1] = NL

NoEmptyCard(suggestions) ==
    \A n \in DOMAIN suggestions : suggestions[n].updates # <<>>

\* C29: every card of every batch the program writes, by a scan or by a
\* Quit, holds at least one update; the first card of the remainder of a
\* Quit holds the update that was being presented.
EveryCardHasUpdates ==
    /\ pending.exists => NoEmptyCard(pending.suggestions)
    /\ sess.active => NoEmptyCard(sess.suggestions)
    /\ ev.op = "detect" => NoEmptyCard(ev.result)
    /\ ev.op = "quit" =>
          /\ pending.exists
          /\ pending.suggestions # <<>>
          /\ pending.suggestions[1].updates[1] = ev.update

QuitAtLastUpdateOfCard ==
    /\ ev.op = "quit"
    /\ ev.j = 2
    /\ pending.exists
    /\ pending.suggestions[1].updates = <<ev.update>>

(***************************************************************************)
(* The review loop with an operator who answers every prompt: a session    *)
(* that is presenting an update does not wait for ever.                    *)
(***************************************************************************)
\* A step that takes the operator's answer to the prompt: a Quit, or one of
\* the decisions Approve, Edit and Skip, told by what the step records.
Answers ==
    \/ Quit
    \/ sess.active /\ ev'.op \in {"approve", "edit", "skip"}
SpecFair == Init /\ [][Next]_vars /\ WF_vars(Answers)

\* The updates of the session that have not had their decision yet.
ToDecide(session) ==
    UpdatesIn(session.suggestions)
        - UpdatesBefore(session.suggestions, session.i, session.j)

\* C30: a session that presents updates comes to an end.  Each decision
\* brings the number of updates still to decide down by exactly one and
\* never goes back to an earlier update, so a batch of N updates takes at
\* most N decisions; the session ends by the decision on the last update,
\* which deletes the pending file, or by a Quit, which persists the rest.
ReviewLoopTerminates ==
    /\ [][sess.active /\ ~Crashes =>
             /\ ToDecide(sess) >= 1
             /\ ToDecide(sess) + Counted(sess) = UpdatesIn(sess.suggestions)
             /\ \/ /\ Decides
                   /\ IF ToDecide(sess) = 1
                      THEN ~sess'.active /\ ~pending'.exists
                      ELSE /\ sess'.active
                           /\ ToDecide(sess') = ToDecide(sess) - 1
                           /\ UpdatesIn(sess'.suggestions) = UpdatesIn(sess.suggestions)
                \/ /\ ev'.op = "quit"
                   /\ ~sess'.active
                   /\ pending'.exists
                   /\ UpdatesIn(pending'.suggestions) = ToDecide(sess)]_vars
    /\ (sess.active ~> ~sess.active)

SessionOverAfterLastDecision ==
    /\ ~sess.active
    /\ ev.op \in {"approve", "edit", "skip"}
    /\ ev.ended = "complete"
    /\ ev.j = 2
    /\ ~pending.exists

====
